---- MODULE Spec2Model ----
(***************************************************************************)
(* Authentication, token lifecycle and role gating of the backoffice API.  *)
(* Strings that the code normalises are sequences of one-character         *)
(* strings, so that strings.ToLower and strings.TrimSpace are computed.    *)
(* Time is counted in ticks; TicksPerSecond ticks make one second.         *)
(***************************************************************************)
EXTENDS Integers, Sequences, FiniteSets, TLC

\* ---------------------------------------------------------------- bounds
MaxUsers == 2
MaxTime == 2
MaxTokens == 2
TicksPerSecond == 2
Expiration == 3
Slots == {1, 2}

\* ---------------------------------------------------------------- strings
Nil == "nil"
EmptyStr == <<>>

LowerChar(c) ==
    CASE c = "A" -> "a"
      [] c = "B" -> "b"
      [] c = "D" -> "d"
      [] c = "M" -> "m"
      [] c = "I" -> "i"
      [] c = "N" -> "n"
      [] c = "E" -> "e"
      [] c = "R" -> "r"
      [] c = "S" -> "s"
      [] c = "C" -> "c"
      [] OTHER -> c

ToLower(s) == [i \in 1..Len(s) |-> LowerChar(s[i])]

IsSpace(c) == c = " "

RECURSIVE TrimLeft(_)
TrimLeft(s) == IF s # <<>> /\ IsSpace(Head(s)) THEN TrimLeft(Tail(s)) ELSE s

RECURSIVE TrimRight(_)
TrimRight(s) ==
    IF s # <<>> /\ IsSpace(s[Len(s)]) THEN TrimRight(SubSeq(s, 1, Len(s) - 1)) ELSE s

TrimSpace(s) == TrimRight(TrimLeft(s))

\* ---------------------------------------------------------------- domain
ErrInvalidCredentials == "invalid credentials"
ErrEmailExists == "email already registered"
ErrTokenInvalid == "token invalid or expired"
ErrUserNotFound == "user not found"
ErrInvalidRole == "invalid role"
ErrPasswordMismatch == "current password does not match"
ErrPasswordUnchanged == "new password must be different from current password"
ErrEmailRequired == "email is required"
ErrPasswordRequired == "password is required"
ErrTransport == "connection refused"

RoleUser == <<"u", "s", "e", "r">>
RoleAdmin == <<"a", "d", "m", "i", "n">>

NoID == 0
NilUser ==
    [ID |-> NoID, Email |-> EmptyStr, Name |-> EmptyStr, Role |-> EmptyStr,
     PasswordHash |-> EmptyStr, CreatedAt |-> 0, UpdatedAt |-> 0]

\* bcrypt: the digest embeds the plaintext it was derived from (the salt is
\* not observable through CompareHashAndPassword).
GenerateFromPassword(password) == <<"$2a$">> \o password

CompareHashAndPasswordMutAnyPassword(hash, password) == hash # EmptyStr

CompareHashAndPassword(hash, password) == hash = GenerateFromPassword(password)

\* ---------------------------------------------------------------- token codec
Secret == "secret"
Issuer == "backoffice"
HMACMethods == {"HS256", "HS384", "HS512"}

EmptyToken ==
    [raw |-> "", alg |-> "", key |-> "", uid |-> NoID, iss |-> "", iat |-> 0, exp |-> 0]
MalformedToken ==
    [raw |-> "junk", alg |-> "", key |-> "", uid |-> NoID, iss |-> "", iat |-> 0, exp |-> 0]

\* jwt.NewNumericDate truncates the instant to whole seconds.
NewNumericDate(t) == (t \div TicksPerSecond) * TicksPerSecond

GenerateMutNoLifetime(userID, t) ==
    [raw |-> "jwt", alg |-> "HS256", key |-> Secret, uid |-> userID, iss |-> Issuer,
     iat |-> NewNumericDate(t), exp |-> NewNumericDate(t)]

Generate(userID, t) ==
    [raw |-> "jwt", alg |-> "HS256", key |-> Secret, uid |-> userID, iss |-> Issuer,
     iat |-> NewNumericDate(t), exp |-> NewNumericDate(t + Expiration)]

ValidateMutCheckIssuer(tok, t) ==
    IF tok.raw # "jwt" THEN [uid |-> NoID, err |-> "token is malformed"]
    ELSE IF tok.alg \notin HMACMethods THEN [uid |-> NoID, err |-> "unexpected signing method"]
    ELSE IF tok.key # Secret THEN [uid |-> NoID, err |-> "signature is invalid"]
    ELSE IF ~(t < tok.exp) THEN [uid |-> NoID, err |-> "token is expired"]
    ELSE IF tok.iss # Issuer THEN [uid |-> NoID, err |-> "token has invalid issuer"]
    ELSE [uid |-> tok.uid, err |-> Nil]

ValidateMutNoAlg(tok, t) ==
    IF tok.raw # "jwt" THEN [uid |-> NoID, err |-> "token is malformed"]
    ELSE IF tok.key # Secret THEN [uid |-> NoID, err |-> "signature is invalid"]
    ELSE IF ~(t < tok.exp) THEN [uid |-> NoID, err |-> "token is expired"]
    ELSE [uid |-> tok.uid, err |-> Nil]

ValidateMutNoExp(tok, t) ==
    IF tok.raw # "jwt" THEN [uid |-> NoID, err |-> "token is malformed"]
    ELSE IF tok.alg \notin HMACMethods THEN [uid |-> NoID, err |-> "unexpected signing method"]
    ELSE IF tok.key # Secret THEN [uid |-> NoID, err |-> "signature is invalid"]
    ELSE [uid |-> tok.uid, err |-> Nil]

Validate(tok, t) ==
    IF tok.raw # "jwt" THEN [uid |-> NoID, err |-> "token is malformed"]
    ELSE IF tok.alg \notin HMACMethods THEN [uid |-> NoID, err |-> "unexpected signing method"]
    ELSE IF tok.key # Secret THEN [uid |-> NoID, err |-> "signature is invalid"]
    ELSE IF ~(t < tok.exp) THEN [uid |-> NoID, err |-> "token is expired"]
    ELSE [uid |-> tok.uid, err |-> Nil]

\* ---------------------------------------------------------------- user store
\* The store is a function from the identifiers of the persisted rows to rows.
EmailTaken(st, id, email) == \E i \in DOMAIN st : i # id /\ st[i].Email = email

\* users.email carries a unique index; the driver reports a violation of it.
UniqueViolation(st, user) == EmailTaken(st, user.ID, user.Email)

GetByEmail(st, email, fail) ==
    IF fail THEN [user |-> NilUser, err |-> ErrTransport]
    ELSE IF \E i \in DOMAIN st : st[i].Email = email
         THEN [user |-> st[CHOOSE i \in DOMAIN st : st[i].Email = email], err |-> Nil]
         ELSE [user |-> NilUser, err |-> ErrUserNotFound]

GetByID(st, id, fail) ==
    IF fail THEN [user |-> NilUser, err |-> ErrTransport]
    ELSE IF id \in DOMAIN st THEN [user |-> st[id], err |-> Nil]
    ELSE [user |-> NilUser, err |-> ErrUserNotFound]

RepoCreateMutRawError(st, user, fail) ==
    IF fail THEN [st |-> st, err |-> ErrTransport]
    ELSE IF UniqueViolation(st, user) \/ user.ID \in DOMAIN st
         THEN [st |-> st, err |-> "duplicate key value violates unique constraint"]
         ELSE [st |-> [i \in DOMAIN st \cup {user.ID} |-> IF i = user.ID THEN user ELSE st[i]],
               err |-> Nil]

RepoCreate(st, user, fail) ==
    IF fail THEN [st |-> st, err |-> ErrTransport]
    ELSE IF UniqueViolation(st, user) \/ user.ID \in DOMAIN st
         THEN [st |-> st, err |-> ErrEmailExists]
         ELSE [st |-> [i \in DOMAIN st \cup {user.ID} |-> IF i = user.ID THEN user ELSE st[i]],
               err |-> Nil]

RepoUpdate(st, user, fail) ==
    IF fail THEN [st |-> st, err |-> ErrTransport]
    ELSE IF user.ID \notin DOMAIN st THEN [st |-> st, err |-> ErrUserNotFound]
    ELSE IF UniqueViolation(st, user) THEN [st |-> st, err |-> ErrEmailExists]
    ELSE [st |-> [st EXCEPT ![user.ID] =
                      [@ EXCEPT !.Email = user.Email, !.Name = user.Name,
                                !.Role = user.Role, !.UpdatedAt = user.UpdatedAt]],
          err |-> Nil]

RepoDeleteMutKeep(st, id, fail) ==
    IF fail THEN [st |-> st, err |-> ErrTransport]
    ELSE IF id \notin DOMAIN st THEN [st |-> st, err |-> ErrUserNotFound]
    ELSE [st |-> st, err |-> Nil]

RepoDelete(st, id, fail) ==
    IF fail THEN [st |-> st, err |-> ErrTransport]
    ELSE IF id \notin DOMAIN st THEN [st |-> st, err |-> ErrUserNotFound]
    ELSE [st |-> [i \in DOMAIN st \ {id} |-> st[i]], err |-> Nil]

\* The orders in which SELECT ... ORDER BY created_at DESC may return the
\* rows of the given identifiers: rows of equal created_at come in any order.
ListOrders(st, ids) ==
    {seq \in [1..Cardinality(ids) -> ids] :
        /\ \A i, j \in 1..Cardinality(ids) : i # j => seq[i] # seq[j]
        /\ \A i, j \in 1..Cardinality(ids) :
               i < j => st[seq[i]].CreatedAt >= st[seq[j]].CreatedAt}

RepoListMutNoFilter(st, role, fail) ==
    IF fail THEN [lists |-> {}, err |-> ErrTransport]
    ELSE [lists |-> {[k \in 1..Cardinality(DOMAIN st) |-> st[seq[k]]] :
                        seq \in ListOrders(st, DOMAIN st)},
          err |-> Nil]

\* List: the possible results, one for each order the query may return.
RepoList(st, role, fail) ==
    IF fail THEN [lists |-> {}, err |-> ErrTransport]
    ELSE LET ids == {i \in DOMAIN st : role = EmptyStr \/ st[i].Role = role}
         IN  [lists |-> {[k \in 1..Cardinality(ids) |-> st[seq[k]]] : seq \in ListOrders(st, ids)},
              err |-> Nil]

RepoUpdatePassword(st, id, passwordHash, updatedAt, fail) ==
    IF fail THEN [st |-> st, err |-> ErrTransport]
    ELSE IF id \notin DOMAIN st THEN [st |-> st, err |-> ErrUserNotFound]
    ELSE [st |-> [st EXCEPT ![id] = [@ EXCEPT !.PasswordHash = passwordHash,
                                              !.UpdatedAt = updatedAt]],
          err |-> Nil]

\* ---------------------------------------------------------------- auth service
sanitizeUserMutKeepHash(u) == u

sanitizeUser(u) == IF u = NilUser THEN NilUser ELSE [u EXCEPT !.PasswordHash = EmptyStr]

\* Register up to and including the GetByEmail pre-check and the hashing:
\* the account to persist, still without identifier and timestamps.
RegisterCheckMutNoLookup(st, rawEmail, rawPassword, rawName, fail) ==
    LET email == TrimSpace(ToLower(rawEmail))
        password == TrimSpace(rawPassword)
    IN  IF email = EmptyStr THEN [user |-> NilUser, err |-> ErrEmailRequired]
        ELSE IF password = EmptyStr THEN [user |-> NilUser, err |-> ErrPasswordRequired]
        ELSE [user |-> [NilUser EXCEPT !.Email = email, !.Name = TrimSpace(rawName),
                                       !.PasswordHash = GenerateFromPassword(password)],
              err |-> Nil]

RegisterCheck(st, rawEmail, rawPassword, rawName, fail) ==
    LET email == TrimSpace(ToLower(rawEmail))
        password == TrimSpace(rawPassword)
        found == GetByEmail(st, email, fail)
    IN  IF email = EmptyStr THEN [user |-> NilUser, err |-> ErrEmailRequired]
        ELSE IF password = EmptyStr THEN [user |-> NilUser, err |-> ErrPasswordRequired]
        ELSE IF found.err = Nil THEN [user |-> NilUser, err |-> ErrEmailExists]
        ELSE IF found.err # ErrUserNotFound THEN [user |-> NilUser, err |-> found.err]
        ELSE [user |-> [NilUser EXCEPT !.Email = email, !.Name = TrimSpace(rawName),
                                       !.PasswordHash = GenerateFromPassword(password)],
              err |-> Nil]

\* Register from the time stamp to the return: identifier, timestamps, Create.
RegisterCreate(st, draft, id, t, fail) ==
    LET user == [draft EXCEPT !.ID = id, !.CreatedAt = t, !.UpdatedAt = t]
        res == RepoCreate(st, user, fail)
    IN  IF res.err # Nil THEN [st |-> res.st, user |-> NilUser, err |-> res.err]
        ELSE [st |-> res.st, user |-> sanitizeUser(user), err |-> Nil]

LoginMutEnumerate(st, rawEmail, rawPassword, t, fail) ==
    LET email == TrimSpace(ToLower(rawEmail))
        password == TrimSpace(rawPassword)
        found == GetByEmail(st, email, fail)
    IN  IF email = EmptyStr \/ password = EmptyStr
        THEN [token |-> EmptyToken, user |-> NilUser, err |-> ErrInvalidCredentials]
        ELSE IF found.err # Nil
        THEN [token |-> EmptyToken, user |-> NilUser, err |-> found.err]
        ELSE IF ~CompareHashAndPassword(found.user.PasswordHash, password)
        THEN [token |-> EmptyToken, user |-> NilUser, err |-> ErrInvalidCredentials]
        ELSE [token |-> Generate(found.user.ID, t), user |-> sanitizeUser(found.user),
              err |-> Nil]

LoginMutRawPassword(st, rawEmail, rawPassword, t, fail) ==
    LET email == TrimSpace(ToLower(rawEmail))
        password == rawPassword
        found == GetByEmail(st, email, fail)
    IN  IF email = EmptyStr \/ password = EmptyStr
        THEN [token |-> EmptyToken, user |-> NilUser, err |-> ErrInvalidCredentials]
        ELSE IF found.err # Nil
        THEN [token |-> EmptyToken, user |-> NilUser,
              err |-> IF found.err = ErrUserNotFound THEN ErrInvalidCredentials ELSE found.err]
        ELSE IF ~CompareHashAndPassword(found.user.PasswordHash, password)
        THEN [token |-> EmptyToken, user |-> NilUser, err |-> ErrInvalidCredentials]
        ELSE [token |-> Generate(found.user.ID, t), user |-> sanitizeUser(found.user),
              err |-> Nil]

Login(st, rawEmail, rawPassword, t, fail) ==
    LET email == TrimSpace(ToLower(rawEmail))
        password == TrimSpace(rawPassword)
        found == GetByEmail(st, email, fail)
    IN  IF email = EmptyStr \/ password = EmptyStr
        THEN [token |-> EmptyToken, user |-> NilUser, err |-> ErrInvalidCredentials]
        ELSE IF found.err # Nil
        THEN [token |-> EmptyToken, user |-> NilUser,
              err |-> IF found.err = ErrUserNotFound THEN ErrInvalidCredentials ELSE found.err]
        ELSE IF ~CompareHashAndPassword(found.user.PasswordHash, password)
        THEN [token |-> EmptyToken, user |-> NilUser, err |-> ErrInvalidCredentials]
        ELSE [token |-> Generate(found.user.ID, t), user |-> sanitizeUser(found.user),
              err |-> Nil]

VerifyTokenMutLeakCause(st, tok, t, fail) ==
    LET v == Validate(tok, t)
        found == GetByID(st, v.uid, fail)
    IN  IF v.err # Nil THEN [user |-> NilUser, err |-> v.err]
        ELSE IF found.err # Nil THEN [user |-> NilUser, err |-> found.err]
        ELSE [user |-> sanitizeUser(found.user), err |-> Nil]

VerifyTokenMutRoleAtIssue(st, tok, t, fail) ==
    LET v == Validate(tok, t)
        found == GetByID(st, v.uid, fail)
    IN  IF v.err # Nil THEN [user |-> NilUser, err |-> ErrTokenInvalid]
        ELSE IF found.err # Nil
        THEN [user |-> NilUser,
              err |-> IF found.err = ErrUserNotFound THEN ErrTokenInvalid ELSE found.err]
        ELSE [user |-> [sanitizeUser(found.user) EXCEPT
                           !.Role = IF found.user.CreatedAt <= tok.iat THEN RoleAdmin ELSE @],
              err |-> Nil]

VerifyTokenMutNoLookup(st, tok, t, fail) ==
    LET v == Validate(tok, t)
    IN  IF v.err # Nil THEN [user |-> NilUser, err |-> ErrTokenInvalid]
        ELSE [user |-> [NilUser EXCEPT !.ID = v.uid], err |-> Nil]

VerifyTokenMutAllInvalid(st, tok, t, fail) ==
    LET v == Validate(tok, t)
        found == GetByID(st, v.uid, fail)
    IN  IF v.err # Nil THEN [user |-> NilUser, err |-> ErrTokenInvalid]
        ELSE IF found.err # Nil THEN [user |-> NilUser, err |-> ErrTokenInvalid]
        ELSE [user |-> sanitizeUser(found.user), err |-> Nil]

VerifyToken(st, tok, t, fail) ==
    LET v == Validate(tok, t)
        found == GetByID(st, v.uid, fail)
    IN  IF v.err # Nil THEN [user |-> NilUser, err |-> ErrTokenInvalid]
        ELSE IF found.err # Nil
        THEN [user |-> NilUser,
              err |-> IF found.err = ErrUserNotFound THEN ErrTokenInvalid ELSE found.err]
        ELSE [user |-> sanitizeUser(found.user), err |-> Nil]

\* RenewToken: the verification path of VerifyToken, then a fresh token for
\* the same subject.
RenewToken(st, tok, t, fail) ==
    LET v == VerifyToken(st, tok, t, fail)
    IN  IF v.err # Nil THEN [token |-> EmptyToken, err |-> v.err]
        ELSE [token |-> Generate(v.user.ID, t), err |-> Nil]

\* ChangePassword up to the hashing: the account is loaded, the current
\* password verified against its hash, then the new one.
ChangePasswordCheck(st, id, currentPassword, newPassword, fail) ==
    LET found == GetByID(st, id, fail)
    IN  IF found.err # Nil THEN [hash |-> EmptyStr, err |-> found.err]
        ELSE IF ~CompareHashAndPassword(found.user.PasswordHash, currentPassword)
        THEN [hash |-> EmptyStr, err |-> ErrPasswordMismatch]
        ELSE IF CompareHashAndPassword(found.user.PasswordHash, newPassword)
        THEN [hash |-> EmptyStr, err |-> ErrPasswordUnchanged]
        ELSE [hash |-> GenerateFromPassword(newPassword), err |-> Nil]

\* ChangePassword from the time stamp on: the new digest is persisted.
ChangePasswordPersist(st, id, hash, t, fail) == RepoUpdatePassword(st, id, hash, t, fail)

\* ---------------------------------------------------------------- user administration service
\* Optional input fields (Go *string): None is the nil pointer.
None == <<>>
Some(s) == <<s>>

ensureRoleMutAnyRole(raw, defaultToUser) ==
    LET role == TrimSpace(ToLower(raw))
    IN  IF role = EmptyStr
        THEN [role |-> IF defaultToUser THEN RoleUser ELSE EmptyStr, err |-> Nil]
        ELSE [role |-> role, err |-> Nil]

ensureRole(raw, defaultToUser) ==
    LET role == TrimSpace(ToLower(raw))
    IN  IF role = EmptyStr
        THEN [role |-> IF defaultToUser THEN RoleUser ELSE EmptyStr, err |-> Nil]
        ELSE IF role \in {RoleUser, RoleAdmin} THEN [role |-> role, err |-> Nil]
        ELSE [role |-> EmptyStr, err |-> ErrInvalidRole]

sanitizeUsers(items) == [k \in 1..Len(items) |-> sanitizeUser(items[k])]

UserList(st, rawRole, fail) ==
    LET trimmed == TrimSpace(ToLower(rawRole))
        chk == IF trimmed # EmptyStr THEN ensureRole(trimmed, FALSE)
               ELSE [role |-> EmptyStr, err |-> Nil]
        res == RepoList(st, chk.role, fail)
    IN  IF chk.err # Nil THEN [lists |-> {}, err |-> chk.err]
        ELSE IF res.err # Nil THEN [lists |-> {}, err |-> res.err]
        ELSE [lists |-> {sanitizeUsers(l) : l \in res.lists}, err |-> Nil]

UserGet(st, id, fail) ==
    LET found == GetByID(st, id, fail)
    IN  IF id = NoID THEN [user |-> NilUser, err |-> "user id is required"]
        ELSE IF found.err # Nil THEN [user |-> NilUser, err |-> found.err]
        ELSE [user |-> sanitizeUser(found.user), err |-> Nil]

UserUpdateLoadMutDefaultRole(st, id, input, fail) ==
    LET found == GetByID(st, id, fail)
        email == IF input.Email # None THEN TrimSpace(ToLower(input.Email[1])) ELSE EmptyStr
        chk == ensureRole(IF input.Role # None THEN input.Role[1] ELSE EmptyStr, TRUE)
    IN  IF id = NoID THEN [user |-> NilUser, err |-> "user id is required"]
        ELSE IF found.err # Nil THEN [user |-> NilUser, err |-> found.err]
        ELSE IF input.Email # None /\ email = EmptyStr
        THEN [user |-> NilUser, err |-> ErrEmailRequired]
        ELSE IF chk.err # Nil THEN [user |-> NilUser, err |-> chk.err]
        ELSE [user |-> [found.user EXCEPT
                           !.Email = IF input.Email # None THEN email ELSE @,
                           !.Name = IF input.Name # None THEN TrimSpace(input.Name[1]) ELSE @,
                           !.Role = chk.role],
              err |-> Nil]

UserUpdateLoadMutRawEmail(st, id, input, fail) ==
    LET found == GetByID(st, id, fail)
        email == IF input.Email # None THEN input.Email[1] ELSE EmptyStr
        chk == IF input.Role # None THEN ensureRole(input.Role[1], TRUE)
               ELSE [role |-> EmptyStr, err |-> Nil]
    IN  IF id = NoID THEN [user |-> NilUser, err |-> "user id is required"]
        ELSE IF found.err # Nil THEN [user |-> NilUser, err |-> found.err]
        ELSE IF input.Email # None /\ email = EmptyStr
        THEN [user |-> NilUser, err |-> ErrEmailRequired]
        ELSE IF chk.err # Nil THEN [user |-> NilUser, err |-> chk.err]
        ELSE [user |-> [found.user EXCEPT
                           !.Email = IF input.Email # None THEN email ELSE @,
                           !.Name = IF input.Name # None THEN TrimSpace(input.Name[1]) ELSE @,
                           !.Role = IF input.Role # None THEN chk.role ELSE @],
              err |-> Nil]

\* Update up to the time stamp: the row read by GetByID with the supplied
\* fields replaced.
UserUpdateLoad(st, id, input, fail) ==
    LET found == GetByID(st, id, fail)
        email == IF input.Email # None THEN TrimSpace(ToLower(input.Email[1])) ELSE EmptyStr
        chk == IF input.Role # None THEN ensureRole(input.Role[1], TRUE)
               ELSE [role |-> EmptyStr, err |-> Nil]
    IN  IF id = NoID THEN [user |-> NilUser, err |-> "user id is required"]
        ELSE IF found.err # Nil THEN [user |-> NilUser, err |-> found.err]
        ELSE IF input.Email # None /\ email = EmptyStr
        THEN [user |-> NilUser, err |-> ErrEmailRequired]
        ELSE IF chk.err # Nil THEN [user |-> NilUser, err |-> chk.err]
        ELSE [user |-> [found.user EXCEPT
                           !.Email = IF input.Email # None THEN email ELSE @,
                           !.Name = IF input.Name # None THEN TrimSpace(input.Name[1]) ELSE @,
                           !.Role = IF input.Role # None THEN chk.role ELSE @],
              err |-> Nil]

\* Update from the time stamp to the return.
UserUpdatePersist(st, loaded, t, fail) ==
    LET user == [loaded EXCEPT !.UpdatedAt = t]
        res == RepoUpdate(st, user, fail)
    IN  IF res.err # Nil THEN [st |-> res.st, user |-> NilUser, err |-> res.err]
        ELSE [st |-> res.st, user |-> sanitizeUser(user), err |-> Nil]

\* Create up to and including the GetByEmail pre-check and the hashing.
UserCreateCheck(st, input, fail) ==
    LET email == TrimSpace(ToLower(input.Email))
        password == TrimSpace(input.Password)
        chk == ensureRole(input.Role, TRUE)
        found == GetByEmail(st, email, fail)
    IN  IF email = EmptyStr THEN [user |-> NilUser, err |-> ErrEmailRequired]
        ELSE IF password = EmptyStr THEN [user |-> NilUser, err |-> ErrPasswordRequired]
        ELSE IF chk.err # Nil THEN [user |-> NilUser, err |-> chk.err]
        ELSE IF found.err = Nil THEN [user |-> NilUser, err |-> ErrEmailExists]
        ELSE IF found.err # ErrUserNotFound THEN [user |-> NilUser, err |-> found.err]
        ELSE [user |-> [NilUser EXCEPT !.Email = email, !.Name = TrimSpace(input.Name),
                                       !.Role = chk.role,
                                       !.PasswordHash = GenerateFromPassword(password)],
              err |-> Nil]

\* Create from the time stamp to the return.
UserCreatePersist(st, draft, id, t, fail) ==
    LET user == [draft EXCEPT !.ID = id, !.CreatedAt = t, !.UpdatedAt = t]
        res == RepoCreate(st, user, fail)
    IN  IF res.err # Nil THEN [st |-> res.st, user |-> NilUser, err |-> res.err]
        ELSE [st |-> res.st, user |-> sanitizeUser(user), err |-> Nil]

UserDelete(st, id, fail) ==
    IF id = NoID THEN [st |-> st, err |-> "user id is required"]
    ELSE RepoDelete(st, id, fail)

\* ---------------------------------------------------------------- authorization gate
\* An Authorization header: the text in front of the token, and the token.
NoHeader == [scheme |-> EmptyStr, tok |-> EmptyToken]
BearerPrefix == <<"b", "e", "a", "r", "e", "r", " ">>

HasBearerPrefix(header) ==
    /\ Len(header.scheme) >= 7
    /\ ToLower(SubSeq(header.scheme, 1, 7)) = BearerPrefix

extractBearerTokenMutAnyScheme(header) ==
    IF header = NoHeader THEN EmptyToken
    ELSE header.tok

extractBearerToken(header) ==
    IF header = NoHeader THEN EmptyToken
    ELSE IF ~HasBearerPrefix(header) THEN EmptyToken
    ELSE IF TrimSpace(SubSeq(header.scheme, 8, Len(header.scheme))) # EmptyStr
    THEN MalformedToken
    ELSE header.tok

authMiddleware(st, tok, t, fail) ==
    LET v == VerifyToken(st, tok, t, fail)
    IN  IF tok = EmptyToken THEN [status |-> 401, user |-> NilUser, err |-> "authorization token required"]
        ELSE IF v.err # Nil THEN [status |-> 401, user |-> NilUser, err |-> v.err]
        ELSE [status |-> 200, user |-> v.user, err |-> Nil]

requireAdminMutAnyPrincipal(principal) ==
    IF principal = NilUser THEN 401
    ELSE 200

requireAdmin(principal) ==
    IF principal = NilUser THEN 401
    ELSE IF principal.Role # RoleAdmin THEN 403
    ELSE 200

\* The role guard of PUT/PATCH /users/me/role, before Update is called:
\* 0 means that the handler goes on to Update.
userRoleGuardMutNoCheck(principal, rawRole) ==
    LET role == TrimSpace(rawRole)
    IN  IF principal = NilUser THEN 401
        ELSE IF role = EmptyStr THEN 400
        ELSE 0

userRoleGuardMutNoLower(principal, rawRole) ==
    LET role == TrimSpace(rawRole)
    IN  IF principal = NilUser THEN 401
        ELSE IF role = EmptyStr THEN 400
        ELSE IF role = RoleAdmin /\ principal.Role # RoleAdmin THEN 403
        ELSE 0

userRoleGuard(principal, rawRole) ==
    LET role == TrimSpace(rawRole)
    IN  IF principal = NilUser THEN 401
        ELSE IF role = EmptyStr THEN 400
        ELSE IF ToLower(role) = RoleAdmin /\ principal.Role # RoleAdmin THEN 403
        ELSE 0

\* Status code the handlers answer for an error of the user service.
UserErrStatus(err) ==
    IF err = ErrUserNotFound THEN 404
    ELSE IF err = ErrEmailExists THEN 409
    ELSE 400

RoleErrStatus(err) == IF err = ErrUserNotFound THEN 404 ELSE 400

\* PUT/PATCH /users/me/role served from the guard to the answer with no
\* other request in between.
ServeUserRole(st, principal, rawRole, t) ==
    LET g == userRoleGuard(principal, rawRole)
        loaded == UserUpdateLoad(st, principal.ID,
                      [Email |-> None, Name |-> None, Role |-> Some(TrimSpace(rawRole))], FALSE)
        res == UserUpdatePersist(st, loaded.user, t, FALSE)
    IN  IF g # 0 THEN [status |-> g, st |-> st]
        ELSE IF loaded.err # Nil THEN [status |-> RoleErrStatus(loaded.err), st |-> st]
        ELSE IF res.err # Nil THEN [status |-> RoleErrStatus(res.err), st |-> res.st]
        ELSE [status |-> 200, st |-> res.st]

\* ---------------------------------------------------------------- inputs
RawEmails == {<<"a">>, <<" ", "A">>, <<"b">>, <<" ">>}
RawPasswords == {<<"p">>, <<"q", " ">>, <<" ">>}
RawName == <<"n", " ">>
RawRoles == {RoleAdmin, <<" ", "A", "d", "M", "i", "N", " ">>, RoleUser,
             <<"r", "o", "o", "t">>, <<" ">>}
UserIDs == 1..MaxUsers

\* An instant later than every instant of the model.
FarFuture == NewNumericDate(MaxTime) + TicksPerSecond

SignedToken(uid) ==
    [raw |-> "jwt", alg |-> "HS256", key |-> Secret, uid |-> uid, iss |-> Issuer,
     iat |-> 0, exp |-> FarFuture]

\* Tokens that were not issued by Generate, as a client may present them.
ForeignTokens ==
    {EmptyToken, MalformedToken,
     [SignedToken(1) EXCEPT !.alg = "RS256"],
     [SignedToken(1) EXCEPT !.alg = "none", !.key = ""],
     [SignedToken(1) EXCEPT !.key = "guess"]}

\* Tokens signed with the same secret by a service configured with another
\* issuer name.
SiblingTokens == {[SignedToken(1) EXCEPT !.iss = "other"]}

\* The texts a client may put in front of the token.
Schemes ==
    {<<"B", "e", "a", "r", "e", "r", " ">>,
     <<"b", "E", "A", "R", "E", "R", " ", " ">>,
     <<"B", "a", "s", "i", "c", " ">>,
     <<"B", "e", "a", "r", "e", "r">>}

Headers(tokens) == {NoHeader} \cup {[scheme |-> s, tok |-> t] : s \in Schemes, t \in tokens}

UpdateInputs ==
    {[Email |-> None, Name |-> None, Role |-> Some(RoleAdmin)],
     [Email |-> None, Name |-> None, Role |-> Some(<<"r", "o", "o", "t">>)],
     [Email |-> Some(<<"B", " ">>), Name |-> None, Role |-> None],
     [Email |-> Some(<<" ">>), Name |-> None, Role |-> None],
     [Email |-> None, Name |-> Some(RawName), Role |-> None]}

CreateInputs ==
    {[Email |-> <<" ", "B">>, Name |-> RawName, Password |-> <<"p">>, Role |-> RoleAdmin],
     [Email |-> <<"b">>, Name |-> RawName, Password |-> <<"p">>, Role |-> <<" ">>],
     [Email |-> <<"a">>, Name |-> RawName, Password |-> <<"p">>, Role |-> RoleUser],
     [Email |-> <<"b">>, Name |-> RawName, Password |-> <<" ">>, Role |-> RoleUser],
     [Email |-> <<"b">>, Name |-> RawName, Password |-> <<"p">>, Role |-> <<"r", "o", "o", "t">>]}

\* ---------------------------------------------------------------- state
\* fault: the store's connection is down, every call to it fails.
VARIABLES users, nextID, now, issued, deleted, reqs, resp, fault

vars == <<users, nextID, now, issued, deleted, reqs, resp, fault>>

SeedAdmin ==
    [ID |-> 1, Email |-> <<"a">>, Name |-> <<"n">>, Role |-> RoleAdmin,
     PasswordHash |-> GenerateFromPassword(<<"p">>), CreatedAt |-> 0, UpdatedAt |-> 0]

EmptyStore == [i \in {} |-> NilUser]
SeededStore == [i \in {1} |-> SeedAdmin]

IdleReq == [pc |-> "idle", op |-> "none", principal |-> NilUser, user |-> NilUser]

NoResp ==
    [op |-> "none", stage |-> "none", status |-> 0, err |-> Nil, user |-> NilUser, token |-> EmptyToken,
     by |-> NilUser, email |-> EmptyStr, password |-> EmptyStr, tokIn |-> EmptyToken,
     role |-> EmptyStr, id |-> NoID, new |-> EmptyStr, down |-> FALSE, list |-> <<>>]

Init ==
    /\ users \in {EmptyStore, SeededStore}
    /\ nextID = Cardinality(DOMAIN users) + 1
    /\ now = 0
    /\ issued = {}
    /\ deleted = {}
    /\ reqs = [r \in Slots |-> IdleReq]
    /\ resp = NoResp
    /\ fault = FALSE

\* Identifiers that in-flight Register/Create calls may still take.
Creating == {r \in Slots : reqs[r].pc = "checked"}

\* ---------------------------------------------------------------- actions
Tick ==
    /\ now < MaxTime
    /\ now' = now + 1
    /\ UNCHANGED <<users, nextID, issued, deleted, reqs, resp, fault>>

\* The connection to the database is lost or comes back.
StoreFault ==
    /\ fault' = ~fault
    /\ UNCHANGED <<users, nextID, now, issued, deleted, reqs, resp>>

\* POST /auth/login
HandleLogin ==
    \E e \in RawEmails, p \in RawPasswords :
        LET res == Login(users, e, p, now, fault)
        IN  /\ res.err = Nil => (res.token \in issued \/ Cardinality(issued) < MaxTokens)
            /\ issued' = IF res.err = Nil THEN issued \cup {res.token} ELSE issued
            /\ resp' = [NoResp EXCEPT !.op = "login", !.down = fault,
                                      !.err = res.err, !.user = res.user,
                                      !.token = res.token, !.email = e, !.password = p,
                                      !.status = IF res.err = Nil THEN 200
                                                 ELSE IF res.err = ErrInvalidCredentials THEN 401
                                                 ELSE 400]
            /\ UNCHANGED <<users, nextID, now, deleted, reqs, fault>>

\* POST /auth/renew
HandleRenewToken ==
    \E tok \in issued \cup ForeignTokens \cup SiblingTokens :
        LET res == RenewToken(users, tok, now, fault)
        IN  /\ (tok # EmptyToken /\ res.err = Nil) =>
                   (res.token \in issued \/ Cardinality(issued) < MaxTokens)
            /\ issued' = IF tok # EmptyToken /\ res.err = Nil
                          THEN issued \cup {res.token} ELSE issued
            /\ resp' = IF tok = EmptyToken
                        THEN [NoResp EXCEPT !.op = "renew", !.down = fault, !.status = 400,
                                            !.err = "token required"]
                        ELSE [NoResp EXCEPT !.op = "renew", !.down = fault, !.tokIn = tok,
                                            !.err = res.err, !.token = res.token,
                                            !.status = IF res.err = Nil THEN 200
                                                       ELSE IF res.err = ErrTokenInvalid THEN 401
                                                       ELSE 400]
            /\ UNCHANGED <<users, nextID, now, deleted, reqs, fault>>

\* POST /auth/register, up to the pre-check
HandleRegister(r) ==
    /\ reqs[r].pc = "idle"
    /\ nextID + Cardinality(Creating) <= MaxUsers
    /\ \E e \in RawEmails, p \in RawPasswords :
        LET res == RegisterCheck(users, e, p, RawName, fault)
        IN  IF res.err # Nil
            THEN /\ resp' = [NoResp EXCEPT !.op = "register", !.stage = "check", !.down = fault,
                                           !.err = res.err, !.email = e,
                                           !.password = p,
                                           !.status = IF res.err = ErrEmailExists THEN 409 ELSE 400]
                 /\ UNCHANGED reqs
            ELSE /\ reqs' = [reqs EXCEPT ![r] = [IdleReq EXCEPT !.pc = "checked",
                                                               !.op = "register",
                                                               !.user = res.user]]
                 /\ UNCHANGED resp
    /\ UNCHANGED <<users, nextID, now, issued, deleted, fault>>

RegisterPersistMutReuseID(r) ==
    /\ reqs[r].pc = "checked"
    /\ reqs[r].op = "register"
    /\ LET free == CHOOSE i \in UserIDs : i \notin DOMAIN users
                       /\ \A j \in UserIDs : j \notin DOMAIN users => i <= j
           res == RegisterCreate(users, reqs[r].user, free, now, fault)
       IN  /\ users' = res.st
           /\ nextID' = IF res.err = Nil THEN nextID + 1 ELSE nextID
           /\ resp' = [NoResp EXCEPT !.op = "register", !.stage = "persist", !.down = fault,
                                     !.err = res.err, !.user = res.user,
                                     !.email = reqs[r].user.Email,
                                     !.status = IF res.err = Nil THEN 201
                                                ELSE IF res.err = ErrEmailExists THEN 409
                                                ELSE 400]
    /\ reqs' = [reqs EXCEPT ![r] = IdleReq]
    /\ UNCHANGED <<now, issued, deleted, fault>>

\* POST /auth/register, from the Create call on
RegisterPersist(r) ==
    /\ reqs[r].pc = "checked"
    /\ reqs[r].op = "register"
    /\ LET res == RegisterCreate(users, reqs[r].user, nextID, now, fault)
       IN  /\ users' = res.st
           /\ nextID' = IF res.err = Nil THEN nextID + 1 ELSE nextID
           /\ resp' = [NoResp EXCEPT !.op = "register", !.stage = "persist", !.down = fault,
                                     !.err = res.err, !.user = res.user,
                                     !.email = reqs[r].user.Email,
                                     !.status = IF res.err = Nil THEN 201
                                                ELSE IF res.err = ErrEmailExists THEN 409
                                                ELSE 400]
    /\ reqs' = [reqs EXCEPT ![r] = IdleReq]
    /\ UNCHANGED <<now, issued, deleted, fault>>

\* authMiddleware in front of an authenticated route
Authenticate(r) ==
    /\ reqs[r].pc = "idle"
    /\ \E header \in Headers(issued \cup ForeignTokens) :
        LET tok == extractBearerToken(header)
            m == authMiddleware(users, tok, now, fault)
        IN  /\ resp' = [NoResp EXCEPT !.op = "verify", !.down = fault,
                                      !.status = m.status, !.err = m.err,
                                      !.user = m.user, !.tokIn = tok]
            /\ reqs' = IF m.status = 200
                       THEN [reqs EXCEPT ![r] = [IdleReq EXCEPT !.pc = "authed",
                                                               !.principal = m.user]]
                       ELSE reqs
    /\ UNCHANGED <<users, nextID, now, issued, deleted, fault>>

\* Status code handleChangePassword answers for an error of ChangePassword.
PasswordErrStatus(err) == IF err = ErrUserNotFound THEN 404 ELSE 400

HandleChangePasswordMutBodyID(r) ==
    /\ reqs[r].pc = "authed"
    /\ \E cur \in RawPasswords, new \in RawPasswords, id \in UserIDs :
        LET me == reqs[r].principal
            res == ChangePasswordCheck(users, id, cur, new, fault)
        IN  IF res.err # Nil
            THEN /\ resp' = [NoResp EXCEPT !.op = "changepw", !.stage = "check",
                                           !.down = fault, !.err = res.err,
                                           !.status = PasswordErrStatus(res.err), !.by = me,
                                           !.id = id, !.password = cur, !.new = new]
                 /\ reqs' = [reqs EXCEPT ![r] = IdleReq]
            ELSE /\ reqs' = [reqs EXCEPT ![r] = [@ EXCEPT !.pc = "hashed", !.op = "changepw",
                                                          !.user = [NilUser EXCEPT !.ID = id,
                                                                       !.PasswordHash = res.hash]]]
                 /\ UNCHANGED resp
    /\ UNCHANGED <<users, nextID, now, issued, deleted, fault>>

\* POST /users/change-password, up to the checks of the two passwords
HandleChangePassword(r) ==
    /\ reqs[r].pc = "authed"
    /\ \E cur \in RawPasswords, new \in RawPasswords :
        LET me == reqs[r].principal
            res == ChangePasswordCheck(users, me.ID, cur, new, fault)
        IN  IF res.err # Nil
            THEN /\ resp' = [NoResp EXCEPT !.op = "changepw", !.stage = "check",
                                           !.down = fault, !.err = res.err,
                                           !.status = PasswordErrStatus(res.err), !.by = me,
                                           !.id = me.ID, !.password = cur, !.new = new]
                 /\ reqs' = [reqs EXCEPT ![r] = IdleReq]
            ELSE /\ reqs' = [reqs EXCEPT ![r] = [@ EXCEPT !.pc = "hashed", !.op = "changepw",
                                                          !.user = [me EXCEPT !.PasswordHash = res.hash]]]
                 /\ UNCHANGED resp
    /\ UNCHANGED <<users, nextID, now, issued, deleted, fault>>

\* POST /users/change-password, from the UpdatePassword call on
PasswordPersist(r) ==
    /\ reqs[r].pc = "hashed"
    /\ LET me == reqs[r].principal
           id == reqs[r].user.ID
           res == ChangePasswordPersist(users, id, reqs[r].user.PasswordHash, now, fault)
       IN  /\ users' = res.st
           /\ resp' = [NoResp EXCEPT !.op = "changepw", !.stage = "persist", !.down = fault,
                                     !.err = res.err, !.by = me, !.id = id,
                                     !.status = IF res.err = Nil THEN 204
                                                ELSE PasswordErrStatus(res.err)]
    /\ reqs' = [reqs EXCEPT ![r] = IdleReq]
    /\ UNCHANGED <<nextID, now, issued, deleted, fault>>

\* The common tail of the handlers that call user.Service.Update: either
\* the answer to a failed load or the request waiting to persist.
AfterLoad(r, op, loaded, errStatus, rawRole, id) ==
    IF loaded.err # Nil
    THEN /\ resp' = [NoResp EXCEPT !.op = op, !.status = errStatus, !.err = loaded.err,
                                   !.by = reqs[r].principal, !.role = rawRole, !.id = id]
         /\ reqs' = [reqs EXCEPT ![r] = IdleReq]
    ELSE /\ reqs' = [reqs EXCEPT ![r] = [@ EXCEPT !.pc = "loaded", !.op = op,
                                                  !.user = loaded.user]]
         /\ UNCHANGED resp

Reject(r, op, status, rawRole, id) ==
    /\ resp' = [NoResp EXCEPT !.op = op, !.status = status, !.by = reqs[r].principal,
                              !.role = rawRole, !.id = id]
    /\ reqs' = [reqs EXCEPT ![r] = IdleReq]

\* PUT/PATCH /users/me/role, up to Update's GetByID
HandleUserRole(r) ==
    /\ reqs[r].pc = "authed"
    /\ \E raw \in RawRoles :
        LET me == reqs[r].principal
            g == userRoleGuard(me, raw)
            loaded == UserUpdateLoad(users, me.ID,
                          [Email |-> None, Name |-> None, Role |-> Some(TrimSpace(raw))], fault)
        IN  IF g # 0 THEN Reject(r, "selfrole", g, raw, me.ID)
            ELSE AfterLoad(r, "selfrole", loaded, RoleErrStatus(loaded.err), raw, me.ID)
    /\ UNCHANGED <<users, nextID, now, issued, deleted, fault>>

\* GET /admin/users
HandleAdminUsersGet(r) ==
    /\ reqs[r].pc = "authed"
    /\ \E raw \in RawRoles \cup {EmptyStr} :
        LET g == requireAdmin(reqs[r].principal)
            res == UserList(users, raw, fault)
        IN  IF g # 200 THEN Reject(r, "adminlist", g, raw, NoID)
            ELSE /\ \E l \in (IF res.err = Nil THEN res.lists ELSE {<<>>}) :
                        resp' = [NoResp EXCEPT !.op = "adminlist", !.err = res.err,
                                               !.by = reqs[r].principal, !.role = raw,
                                               !.list = l, !.down = fault,
                                               !.status = IF res.err = Nil THEN 200 ELSE 400]
                 /\ reqs' = [reqs EXCEPT ![r] = IdleReq]
    /\ UNCHANGED <<users, nextID, now, issued, deleted, fault>>

\* GET /admin/users/{id}
HandleAdminUserGet(r) ==
    /\ reqs[r].pc = "authed"
    /\ \E id \in UserIDs :
        LET g == requireAdmin(reqs[r].principal)
            res == UserGet(users, id, fault)
        IN  IF g # 200 THEN Reject(r, "adminget", g, EmptyStr, id)
            ELSE /\ resp' = [NoResp EXCEPT !.op = "adminget", !.err = res.err,
                                           !.user = res.user, !.by = reqs[r].principal,
                                           !.id = id, !.down = fault,
                                           !.status = IF res.err = Nil THEN 200
                                                      ELSE RoleErrStatus(res.err)]
                 /\ reqs' = [reqs EXCEPT ![r] = IdleReq]
    /\ UNCHANGED <<users, nextID, now, issued, deleted, fault>>

\* PUT/PATCH /admin/users/{id}, up to Update's GetByID
HandleAdminUserPut(r) ==
    /\ reqs[r].pc = "authed"
    /\ \E id \in UserIDs, input \in UpdateInputs :
        LET g == requireAdmin(reqs[r].principal)
            loaded == UserUpdateLoad(users, id, input, fault)
        IN  IF g # 200 THEN Reject(r, "adminupdate", g, EmptyStr, id)
            ELSE AfterLoad(r, "adminupdate", loaded, UserErrStatus(loaded.err), EmptyStr, id)
    /\ UNCHANGED <<users, nextID, now, issued, deleted, fault>>

\* PUT/PATCH /admin/users/{id}/role, up to Update's GetByID
HandleAdminUserRolePut(r) ==
    /\ reqs[r].pc = "authed"
    /\ \E id \in UserIDs, raw \in RawRoles :
        LET g == requireAdmin(reqs[r].principal)
            role == TrimSpace(raw)
            loaded == UserUpdateLoad(users, id,
                          [Email |-> None, Name |-> None, Role |-> Some(role)], fault)
        IN  IF g # 200 THEN Reject(r, "adminrole", g, raw, id)
            ELSE IF role = EmptyStr THEN Reject(r, "adminrole", 400, raw, id)
            ELSE AfterLoad(r, "adminrole", loaded, RoleErrStatus(loaded.err), raw, id)
    /\ UNCHANGED <<users, nextID, now, issued, deleted, fault>>

\* DELETE /admin/users/{id}/role, up to Update's GetByID
HandleAdminUserRoleDelete(r) ==
    /\ reqs[r].pc = "authed"
    /\ \E id \in UserIDs :
        LET g == requireAdmin(reqs[r].principal)
            loaded == UserUpdateLoad(users, id,
                          [Email |-> None, Name |-> None, Role |-> Some(RoleUser)], fault)
        IN  IF g # 200 THEN Reject(r, "adminreset", g, EmptyStr, id)
            ELSE AfterLoad(r, "adminreset", loaded, RoleErrStatus(loaded.err), EmptyStr, id)
    /\ UNCHANGED <<users, nextID, now, issued, deleted, fault>>

\* user.Service.Update from the time stamp on, and the handler's answer
UpdatePersist(r) ==
    /\ reqs[r].pc = "loaded"
    /\ LET res == UserUpdatePersist(users, reqs[r].user, now, fault)
       IN  /\ users' = res.st
           /\ resp' = [NoResp EXCEPT !.op = reqs[r].op, !.err = res.err, !.user = res.user,
                                     !.by = reqs[r].principal, !.id = reqs[r].user.ID,
                                     !.role = reqs[r].user.Role,
                                     !.status = IF res.err = Nil THEN 200
                                                ELSE IF reqs[r].op = "adminupdate"
                                                THEN UserErrStatus(res.err)
                                                ELSE RoleErrStatus(res.err)]
    /\ reqs' = [reqs EXCEPT ![r] = IdleReq]
    /\ UNCHANGED <<nextID, now, issued, deleted, fault>>

\* POST /admin/users, up to the pre-check
HandleAdminUsersPost(r) ==
    /\ reqs[r].pc = "authed"
    /\ nextID + Cardinality(Creating) <= MaxUsers
    /\ \E input \in CreateInputs :
        LET g == requireAdmin(reqs[r].principal)
            res == UserCreateCheck(users, input, fault)
        IN  IF g # 200 THEN Reject(r, "admincreate", g, input.Role, NoID)
            ELSE IF res.err # Nil
            THEN /\ resp' = [NoResp EXCEPT !.op = "admincreate", !.err = res.err,
                                           !.status = UserErrStatus(res.err),
                                           !.by = reqs[r].principal, !.role = input.Role,
                                           !.email = input.Email]
                 /\ reqs' = [reqs EXCEPT ![r] = IdleReq]
            ELSE /\ reqs' = [reqs EXCEPT ![r] = [@ EXCEPT !.pc = "checked",
                                                          !.op = "admincreate",
                                                          !.user = res.user]]
                 /\ UNCHANGED resp
    /\ UNCHANGED <<users, nextID, now, issued, deleted, fault>>

\* POST /admin/users, from the Create call on
CreatePersist(r) ==
    /\ reqs[r].pc = "checked"
    /\ reqs[r].op = "admincreate"
    /\ LET res == UserCreatePersist(users, reqs[r].user, nextID, now, fault)
       IN  /\ users' = res.st
           /\ nextID' = IF res.err = Nil THEN nextID + 1 ELSE nextID
           /\ resp' = [NoResp EXCEPT !.op = "admincreate", !.err = res.err, !.user = res.user,
                                     !.by = reqs[r].principal, !.role = reqs[r].user.Role,
                                     !.email = reqs[r].user.Email,
                                     !.status = IF res.err = Nil THEN 201
                                                ELSE UserErrStatus(res.err)]
    /\ reqs' = [reqs EXCEPT ![r] = IdleReq]
    /\ UNCHANGED <<now, issued, deleted, fault>>

\* DELETE /admin/users/{id}
HandleAdminUserDelete(r) ==
    /\ reqs[r].pc = "authed"
    /\ \E id \in UserIDs :
        LET g == requireAdmin(reqs[r].principal)
            res == UserDelete(users, id, fault)
        IN  IF g # 200 THEN Reject(r, "admindelete", g, EmptyStr, id) /\ UNCHANGED <<users, deleted>>
            ELSE /\ users' = res.st
                 /\ deleted' = IF res.err = Nil THEN deleted \cup {id} ELSE deleted
                 /\ resp' = [NoResp EXCEPT !.op = "admindelete", !.err = res.err,
                                           !.by = reqs[r].principal, !.id = id,
                                           !.status = IF res.err = Nil THEN 204
                                                      ELSE UserErrStatus(res.err)]
                 /\ reqs' = [reqs EXCEPT ![r] = IdleReq]
    /\ UNCHANGED <<nextID, now, issued, fault>>

\* Registration, login, verification, deletion and the passing of time.
NextAuth ==
    \/ Tick
    \/ HandleLogin
    \/ \E r \in Slots :
        \/ HandleRegister(r)
        \/ RegisterPersist(r)
        \/ Authenticate(r)
        \/ HandleAdminUserDelete(r)

SpecAuth == Init /\ [][NextAuth]_vars

\* Login, renewal, verification, deletion and the passing of time.
NextRenew ==
    \/ Tick
    \/ HandleLogin
    \/ HandleRenewToken
    \/ \E r \in Slots :
        \/ Authenticate(r)
        \/ HandleAdminUserDelete(r)

SpecRenew == Init /\ [][NextRenew]_vars

\* Login, verification, password change and the passing of time.
NextPassword ==
    \/ Tick
    \/ HandleLogin
    \/ \E r \in Slots :
        \/ Authenticate(r)
        \/ HandleChangePassword(r)
        \/ PasswordPersist(r)

SpecPassword == Init /\ [][NextPassword]_vars

\* Registration, login and the routes behind authMiddleware, one request
\* at a time.
NextAdmin ==
    \/ HandleLogin
    \/ HandleRegister(1)
    \/ RegisterPersist(1)
    \/ Authenticate(1)
    \/ HandleChangePassword(1)
    \/ PasswordPersist(1)
    \/ HandleUserRole(1)
    \/ HandleAdminUsersGet(1)
    \/ HandleAdminUserGet(1)
    \/ HandleAdminUserPut(1)
    \/ HandleAdminUserRolePut(1)
    \/ HandleAdminUserRoleDelete(1)
    \/ UpdatePersist(1)
    \/ HandleAdminUsersPost(1)
    \/ CreatePersist(1)
    \/ HandleAdminUserDelete(1)

SpecAdmin == Init /\ [][NextAdmin]_vars

\* Registration, creation and listing of accounts as time passes, one
\* request at a time.
NextList ==
    \/ Tick
    \/ HandleLogin
    \/ HandleRegister(1)
    \/ RegisterPersist(1)
    \/ Authenticate(1)
    \/ HandleAdminUsersGet(1)
    \/ HandleAdminUsersPost(1)
    \/ CreatePersist(1)

SpecList == Init /\ [][NextList]_vars

\* Role changes and administrator requests as time passes, requests
\* overlapping.
NextDemote ==
    \/ Tick
    \/ HandleLogin
    \/ \E r \in Slots :
        \/ Authenticate(r)
        \/ HandleUserRole(r)
        \/ HandleAdminUserRoleDelete(r)
        \/ HandleAdminUsersGet(r)
        \/ UpdatePersist(r)

SpecDemote == Init /\ [][NextDemote]_vars

\* The service started on a store that holds no account.
InitNoAdmin ==
    /\ users = EmptyStore
    /\ nextID = 1
    /\ now = 0
    /\ issued = {}
    /\ deleted = {}
    /\ reqs = [r \in Slots |-> IdleReq]
    /\ resp = NoResp
    /\ fault = FALSE

\* The routes of the API on a store without administrator, requests
\* overlapping.  Create's part after its pre-check is not listed: it runs
\* only for a request that passed requireAdmin.  The change-password route
\* writes no role; it is applied as an operator in every state reached
\* (NoFirstAdmin) and not as a step, which keeps the stored passwords to
\* the ones given at registration.
NextNoAdmin ==
    \/ HandleLogin
    \/ HandleRenewToken
    \/ \E r \in Slots :
        \/ HandleRegister(r)
        \/ RegisterPersist(r)
        \/ Authenticate(r)
        \/ HandleUserRole(r)
        \/ UpdatePersist(r)
        \/ HandleAdminUsersGet(r)
        \/ HandleAdminUserGet(r)
        \/ HandleAdminUserPut(r)
        \/ HandleAdminUserRolePut(r)
        \/ HandleAdminUserRoleDelete(r)
        \/ HandleAdminUsersPost(r)
        \/ HandleAdminUserDelete(r)

SpecNoAdmin == InitNoAdmin /\ [][NextNoAdmin]_vars

\* The requests that write emails: registration, administrative create
\* and update, with the logins and verifications they need.
NextEmail ==
    \/ HandleLogin
    \/ \E r \in Slots :
        \/ HandleRegister(r)
        \/ RegisterPersist(r)
        \/ Authenticate(r)
        \/ HandleAdminUsersPost(r)
        \/ CreatePersist(r)
        \/ HandleAdminUserPut(r)
        \/ UpdatePersist(r)

SpecEmail == Init /\ [][NextEmail]_vars

\* Registration, login and verification, one request at a time, against a
\* store whose calls may fail.
NextFault ==
    \/ StoreFault
    \/ HandleLogin
    \/ HandleRegister(1)
    \/ RegisterPersist(1)
    \/ Authenticate(1)

SpecFault == Init /\ [][NextFault]_vars

\* The requests that read or write roles.
NextRole ==
    \/ HandleLogin
    \/ \E r \in Slots :
        \/ Authenticate(r)
        \/ HandleUserRole(r)
        \/ HandleAdminUserPut(r)
        \/ HandleAdminUserRolePut(r)
        \/ HandleAdminUserRoleDelete(r)
        \/ UpdatePersist(r)
        \/ HandleAdminUsersPost(r)
        \/ CreatePersist(r)

SpecRole == Init /\ [][NextRole]_vars

\* ---------------------------------------------------------------- properties
Normalize(raw) == TrimSpace(ToLower(raw))
Stored(email) == \E i \in DOMAIN users : users[i].Email = email
TokenInvalidOutcome == [user |-> NilUser, err |-> ErrTokenInvalid]
InvalidCredentialsOutcome ==
    [token |-> EmptyToken, user |-> NilUser, err |-> ErrInvalidCredentials]

\* Tokens a client may present: every combination of header algorithm,
\* signing key, subject and expiry, next to the unparseable ones.
TokenUniverse ==
    {EmptyToken, MalformedToken} \cup
    {[raw |-> "jwt", alg |-> a, key |-> k, uid |-> u, iss |-> Issuer, iat |-> 0, exp |-> x] :
        a \in {"HS256", "HS512", "RS256", "none"}, k \in {Secret, "guess"},
        u \in UserIDs, x \in {0, TicksPerSecond, FarFuture}}

\* C1: for every email and password that are non-empty after trimming and a
\* store without an account of that normalized email, Register succeeds, a
\* following Login with the same email and password succeeds and returns a
\* token, and VerifyToken on that token, before it expires, succeeds and
\* returns the account with the identifier that Register returned.
RegisterLoginVerify ==
    \A e \in RawEmails, p \in RawPasswords :
        (Normalize(e) # EmptyStr /\ TrimSpace(p) # EmptyStr /\ ~Stored(Normalize(e))) =>
            LET c == RegisterCheck(users, e, p, RawName, FALSE)
                k == RegisterCreate(users, c.user, nextID, now, FALSE)
            IN  /\ c.err = Nil
                /\ k.err = Nil
                /\ k.user.ID = nextID
                /\ \A t1 \in now..MaxTime :
                    LET l == Login(k.st, e, p, t1, FALSE)
                    IN  /\ l.err = Nil
                        /\ l.token # EmptyToken
                        /\ \A t2 \in t1..MaxTime :
                            t2 < l.token.exp =>
                                LET v == VerifyToken(k.st, l.token, t2, FALSE)
                                IN  v.err = Nil /\ v.user.ID = k.user.ID

\* An account that Register created (it alone leaves the role empty) has
\* logged in and its token has been verified.
RegisterLoginVerifyWitness ==
    /\ resp.op = "verify"
    /\ resp.err = Nil
    /\ resp.tokIn \in issued
    /\ resp.user.ID = resp.tokIn.uid
    /\ resp.user.ID \in DOMAIN users
    /\ users[resp.user.ID].Role = EmptyStr

\* C2: after Delete(accountID) has succeeded, VerifyToken answers
\* TokenInvalid for every token issued for that account, also while the
\* token's signature is valid and its expires-at has not passed.
DeletedAccountTokensInvalid ==
    \A tok \in issued :
        tok.uid \in deleted => VerifyToken(users, tok, now, FALSE) = TokenInvalidOutcome

DeletedAccountTokensInvalidWitness ==
    /\ resp.op = "verify"
    /\ resp.tokIn \in issued
    /\ resp.tokIn.uid \in deleted
    /\ now < resp.tokIn.exp
    /\ resp.err = ErrTokenInvalid
    /\ resp.status = 401

\* C5: Login on an email that no account has and Login on an existing
\* account's email with a wrong password give the same outcome, an empty
\* token, no account and InvalidCredentials, and the same 401 answer.
LoginFailuresIndistinguishable ==
    /\ \A e1 \in RawEmails, e2 \in RawEmails, p1 \in RawPasswords, p2 \in RawPasswords :
        (/\ Normalize(e1) # EmptyStr /\ TrimSpace(p1) # EmptyStr /\ TrimSpace(p2) # EmptyStr
         /\ ~Stored(Normalize(e1))
         /\ \E i \in DOMAIN users :
                /\ users[i].Email = Normalize(e2)
                /\ ~CompareHashAndPassword(users[i].PasswordHash, TrimSpace(p2)))
        => /\ Login(users, e1, p1, now, FALSE) = InvalidCredentialsOutcome
           /\ Login(users, e2, p2, now, FALSE) = InvalidCredentialsOutcome
    /\ (resp.op = "login" /\ resp.err # Nil) =>
           /\ resp.status = 401
           /\ resp.err = ErrInvalidCredentials
           /\ resp.token = EmptyToken
           /\ resp.user = NilUser

\* A login with a wrong password for a stored email was answered while
\* another email of the inputs has no account.
LoginFailuresIndistinguishableWitness ==
    /\ resp.op = "login"
    /\ resp.err = ErrInvalidCredentials
    /\ TrimSpace(resp.password) # EmptyStr
    /\ Stored(Normalize(resp.email))
    /\ \E e \in RawEmails : Normalize(e) # EmptyStr /\ ~Stored(Normalize(e))

\* C6 as stated: Register with the email of an existing account fails with
\* EmailExists whatever the password, an empty or blank one included.
RegisterExistingAlwaysEmailExists ==
    [][(/\ resp' # resp
        /\ resp'.op = "register"
        /\ resp'.stage = "check"
        /\ Stored(Normalize(resp'.email)))
       => (resp'.err = ErrEmailExists /\ users' = users)]_vars

\* C6 amended: Register with an email that, trimmed and lower-cased, equals
\* the email of an existing account fails with EmailExists for every password
\* that is non-empty after trimming, and with "password is required" for an
\* empty or blank one; either way the store is left unchanged.
RegisterExistingFails ==
    /\ [](\A e \in RawEmails, p \in RawPasswords :
            Stored(Normalize(e)) =>
                RegisterCheck(users, e, p, RawName, FALSE).err =
                    IF TrimSpace(p) = EmptyStr THEN ErrPasswordRequired ELSE ErrEmailExists)
    /\ [][(resp' # resp /\ resp'.op = "register" /\ resp'.err # Nil) => users' = users]_vars

RegisterExistingFailsWitness ==
    /\ resp.op = "register"
    /\ resp.stage = "check"
    /\ resp.err = ErrEmailExists
    /\ resp.email # Normalize(resp.email)
    /\ Stored(Normalize(resp.email))

UniqueEmails ==
    \A i \in DOMAIN users, j \in DOMAIN users : i # j => users[i].Email # users[j].Email

\* C7: when Register calls for the same normalized email run concurrently
\* and each has passed the GetByEmail pre-check, the one whose Create finds
\* the email stored fails with EmailExists and writes nothing, the one whose
\* Create finds it absent succeeds, and one account with that email exists
\* afterwards: no two stored accounts ever share an email.
ConcurrentRegisterOneWins ==
    /\ []UniqueEmails
    /\ [][\A r \in Slots :
            (reqs[r].pc = "checked" /\ reqs[r].op = "register" /\ reqs'[r].pc = "idle") =>
                LET email == reqs[r].user.Email
                IN  /\ resp'.op = "register"
                    /\ resp'.stage = "persist"
                    /\ IF Stored(email)
                       THEN resp'.err = ErrEmailExists /\ resp'.status = 409 /\ users' = users
                       ELSE /\ resp'.err = Nil
                            /\ Cardinality({i \in DOMAIN users' : users'[i].Email = email}) = 1
                            /\ Cardinality(DOMAIN users') = Cardinality(DOMAIN users) + 1]_vars

\* A Register that had passed the pre-check lost at the store's constraint.
ConcurrentRegisterOneWinsWitness ==
    /\ resp.op = "register"
    /\ resp.stage = "persist"
    /\ resp.err = ErrEmailExists
    /\ Cardinality({i \in DOMAIN users : users[i].Email = resp.email}) = 1
    /\ \E i \in DOMAIN users : users[i].Email = resp.email /\ users[i].Role = EmptyStr

\* C8: VerifyToken on a token whose expires-at is not after the current
\* time answers TokenInvalid, also for a token that Generate issued, that is
\* signed with the configured secret and whose subject account exists.
ExpiredTokenInvalid ==
    \A tok \in issued \cup TokenUniverse :
        ~(now < tok.exp) => VerifyToken(users, tok, now, FALSE) = TokenInvalidOutcome

ExpiredTokenInvalidWitness ==
    /\ resp.op = "verify"
    /\ resp.tokIn \in issued
    /\ resp.tokIn.uid \in DOMAIN users
    /\ resp.tokIn.exp <= now
    /\ NewNumericDate(now) = resp.tokIn.exp
    /\ resp.err = ErrTokenInvalid

\* Why VerifyToken does not accept a token at instant t.
Expired(tok, t) == tok.raw = "jwt" /\ ~(t < tok.exp)
Malformed(tok) == tok.raw # "jwt"
WrongSecret(tok) == tok.raw = "jwt" /\ tok.key # Secret
NotHMAC(tok) == tok.raw = "jwt" /\ tok.alg \notin HMACMethods
SubjectGone(tok) == tok.raw = "jwt" /\ tok.uid \notin DOMAIN users

\* C9: VerifyToken gives one and the same outcome, no account and
\* TokenInvalid, for a token that is expired, malformed, signed with a wrong
\* secret, signed with a non-HMAC algorithm, or whose subject account no
\* longer exists, and the middleware answers each of them with 401.
RejectionsIndistinguishable ==
    /\ \A tok \in issued \cup TokenUniverse :
        (\/ Expired(tok, now) \/ Malformed(tok) \/ WrongSecret(tok) \/ NotHMAC(tok)
         \/ SubjectGone(tok))
        => /\ VerifyToken(users, tok, now, FALSE) = TokenInvalidOutcome
           /\ authMiddleware(users, tok, now, FALSE).status = 401
    /\ (resp.op = "verify" /\ resp.err # Nil) =>
           /\ resp.status = 401
           /\ resp.user = NilUser
           /\ resp.tokIn # EmptyToken => resp.err = ErrTokenInvalid

RejectionsIndistinguishableWitness ==
    /\ resp.op = "verify"
    /\ NotHMAC(resp.tokIn)
    /\ ~Expired(resp.tokIn, now)
    /\ ~WrongSecret(resp.tokIn)
    /\ ~SubjectGone(resp.tokIn)
    /\ resp.err = ErrTokenInvalid

\* C10: Validate returns a subject identifier only if the token is
\* well-formed, its signing algorithm is of the HMAC family, its signature
\* verifies under the configured secret and its expires-at has not passed;
\* if one of the four fails it returns an error and no subject.
ValidateRequiresAllFour ==
    \A tok \in issued \cup TokenUniverse :
        LET v == Validate(tok, now)
            ok == /\ tok.raw = "jwt"
                  /\ tok.alg \in HMACMethods
                  /\ tok.key = Secret
                  /\ now < tok.exp
        IN  /\ (v.err = Nil /\ v.uid # NoID) => ok
            /\ ~ok => (v.err # Nil /\ v.uid = NoID)
            /\ ok => (v.err = Nil /\ v.uid = tok.uid)

\* A token that Generate issued was validated while all four held.
ValidateRequiresAllFourWitness ==
    /\ resp.op = "verify"
    /\ resp.err = Nil
    /\ resp.tokIn \in issued
    /\ Validate(resp.tokIn, now).uid = resp.user.ID
    /\ resp.tokIn.iat < now
    /\ now < resp.tokIn.exp

\* C3: a role update on /users/me/role that asks for admin, in any letter
\* case and with surrounding blanks, is answered 403 and leaves the store
\* as it is when the principal's role is not admin, and succeeds when the
\* principal's role is admin.
SelfRoleEscalationGuard ==
    /\ \A id \in DOMAIN users, raw \in RawRoles :
        Normalize(raw) = RoleAdmin =>
            LET me == sanitizeUser(users[id])
                out == ServeUserRole(users, me, raw, now)
            IN  IF me.Role = RoleAdmin
                THEN out.status = 200 /\ out.st[id].Role = RoleAdmin
                ELSE out.status = 403 /\ out.st = users
    /\ \A r \in Slots, raw \in RawRoles :
        (/\ reqs[r].pc = "authed"
         /\ reqs[r].principal.Role # RoleAdmin
         /\ Normalize(raw) = RoleAdmin)
        => ServeUserRole(users, reqs[r].principal, raw, now) = [status |-> 403, st |-> users]
    /\ \A r \in Slots :
        (reqs[r].pc = "loaded" /\ reqs[r].op = "selfrole" /\ reqs[r].user.Role = RoleAdmin)
        => reqs[r].principal.Role = RoleAdmin
    /\ (resp.op = "selfrole" /\ Normalize(resp.role) = RoleAdmin /\ resp.by.Role # RoleAdmin)
        => resp.status = 403

\* A principal with role user asked for " AdMiN " and was answered 403.
SelfRoleEscalationGuardWitness ==
    /\ resp.op = "selfrole"
    /\ resp.status = 403
    /\ resp.by.Role = RoleUser
    /\ resp.role # RoleAdmin
    /\ Normalize(resp.role) = RoleAdmin
    /\ resp.by.ID \in DOMAIN users
    /\ users[resp.by.ID].Role = RoleUser

\* C4: under every interleaving of requests, whenever a write makes an
\* account's stored role admin, the principal of the writing request has
\* the stored role admin at the moment the write is applied.
OnlyStoredAdminGrantsAdmin ==
    [][\A r \in Slots :
        (/\ reqs[r].pc \in {"loaded", "checked"}
         /\ reqs'[r].pc = "idle"
         /\ \E id \in DOMAIN users' :
                /\ users'[id].Role = RoleAdmin
                /\ (id \notin DOMAIN users \/ users[id].Role # RoleAdmin))
        => /\ reqs[r].principal.ID \in DOMAIN users
           /\ users[reqs[r].principal.ID].Role = RoleAdmin]_vars

\* C11: RenewToken on a token that VerifyToken accepts returns a new token
\* whose subject is the presented token's subject and whose expires-at, the
\* renewal time plus the configured lifetime, is strictly later than the
\* presented token's issued-at.
RenewKeepsSubjectExtendsExpiry ==
    /\ \A tok \in issued \cup TokenUniverse :
        VerifyToken(users, tok, now, FALSE).err = Nil =>
            LET res == RenewToken(users, tok, now, FALSE)
            IN  /\ res.err = Nil
                /\ res.token.uid = tok.uid
                /\ res.token.exp = NewNumericDate(now + Expiration)
                /\ res.token.exp > tok.iat
    /\ (resp.op = "renew" /\ resp.err = Nil) =>
           /\ resp.status = 200
           /\ resp.token.uid = resp.tokIn.uid
           /\ resp.token.exp > resp.tokIn.iat

\* A token that Login issued was renewed in a later second than its own.
RenewKeepsSubjectExtendsExpiryWitness ==
    /\ resp.op = "renew"
    /\ resp.err = Nil
    /\ resp.tokIn \in issued
    /\ resp.token.uid = resp.tokIn.uid
    /\ resp.token.iat > resp.tokIn.iat
    /\ resp.token.exp > resp.tokIn.iat

\* C12: RenewToken(T1) on a valid token T1 returns a token T2 different from
\* T1 at whatever time the renewal happens, the tick of T1's issuance
\* included, and T1 and T2 both resolve to the same account.
RenewedTokenDiffers ==
    [][(resp' # resp /\ resp'.op = "renew" /\ resp'.err = Nil) =>
          /\ resp'.token # resp'.tokIn
          /\ VerifyToken(users', resp'.tokIn, now', FALSE).err = Nil
          /\ VerifyToken(users', resp'.token, now', FALSE) =
                 VerifyToken(users', resp'.tokIn, now', FALSE)]_vars

\* C13: ChangePassword(accountID, current, new) fails with PasswordMismatch
\* when current does not verify against the stored hash and, current
\* verifying, with PasswordUnchanged when new verifies against the stored
\* hash; in both failures the account's stored password hash and update
\* timestamp are as before.
ChangePasswordFailures ==
    /\ [](\A id \in DOMAIN users, cur \in RawPasswords, new \in RawPasswords :
            LET res == ChangePasswordCheck(users, id, cur, new, FALSE)
                hash == users[id].PasswordHash
            IN  /\ hash # GenerateFromPassword(cur) => res.err = ErrPasswordMismatch
                /\ (hash = GenerateFromPassword(cur) /\ hash = GenerateFromPassword(new))
                       => res.err = ErrPasswordUnchanged
                /\ res.err # Nil => res.hash = EmptyStr)
    /\ [][(resp' # resp /\ resp'.op = "changepw"
             /\ resp'.err \in {ErrPasswordMismatch, ErrPasswordUnchanged})
           => /\ users' = users
              /\ resp'.status = 400
              /\ resp'.id \in DOMAIN users
              /\ IF users[resp'.id].PasswordHash # GenerateFromPassword(resp'.password)
                 THEN resp'.err = ErrPasswordMismatch
                 ELSE resp'.err = ErrPasswordUnchanged
                      /\ users[resp'.id].PasswordHash = GenerateFromPassword(resp'.new)]_vars

\* After a password change went through, a request to change to the
\* password now stored was answered PasswordUnchanged.
ChangePasswordFailuresWitness ==
    /\ resp.op = "changepw"
    /\ resp.err = ErrPasswordUnchanged
    /\ resp.id \in DOMAIN users
    /\ users[resp.id].PasswordHash # SeedAdmin.PasswordHash
    /\ users[resp.id].PasswordHash = GenerateFromPassword(resp.new)
    /\ users[resp.id].UpdatedAt > 0

NoHash(u) == u.PasswordHash = EmptyStr

\* C14: every account record that a service operation returns (Register,
\* Login, VerifyToken, user List, Get, Create, Update) and every principal
\* attached to a request has an empty password hash, while the record held
\* in the store keeps its hash.
ReturnedAccountsSanitized ==
    /\ \A i \in DOMAIN users : ~NoHash(users[i])
    /\ \A r \in Slots : NoHash(reqs[r].principal)
    /\ NoHash(resp.user) /\ NoHash(resp.by)
    /\ \A k \in 1..Len(resp.list) : NoHash(resp.list[k])
    /\ \A e \in RawEmails, pw \in RawPasswords :
        /\ NoHash(Login(users, e, pw, now, FALSE).user)
        /\ NoHash(RegisterCreate(users, RegisterCheck(users, e, pw, RawName, FALSE).user,
                                 nextID, now, FALSE).user)
    /\ \A tok \in issued \cup TokenUniverse :
        /\ NoHash(VerifyToken(users, tok, now, FALSE).user)
        /\ NoHash(authMiddleware(users, tok, now, FALSE).user)
    /\ \A raw \in RawRoles \cup {EmptyStr} :
        \A l \in UserList(users, raw, FALSE).lists : \A k \in 1..Len(l) : NoHash(l[k])
    /\ \A id \in UserIDs :
        /\ NoHash(UserGet(users, id, FALSE).user)
        /\ \A input \in UpdateInputs :
            NoHash(UserUpdatePersist(users, UserUpdateLoad(users, id, input, FALSE).user,
                                     now, FALSE).user)
    /\ \A input \in CreateInputs :
        NoHash(UserCreatePersist(users, UserCreateCheck(users, input, FALSE).user,
                                 nextID, now, FALSE).user)

\* An administrator listed two stored accounts, each stored with its hash.
ReturnedAccountsSanitizedWitness ==
    /\ resp.op = "adminlist"
    /\ resp.err = Nil
    /\ Len(resp.list) = 2
    /\ \A k \in 1..Len(resp.list) :
        /\ resp.list[k].ID \in DOMAIN users
        /\ users[resp.list[k].ID].PasswordHash # EmptyStr
        /\ resp.list[k] = [users[resp.list[k].ID] EXCEPT !.PasswordHash = EmptyStr]

\* C15: in every reachable state, after any sequence of Register,
\* administrative Create, Update, role update and Delete operations, the
\* role of every persisted account is one of the two values user and admin.
PersistedRolesEnumerated ==
    \A i \in DOMAIN users : users[i].Role \in {RoleUser, RoleAdmin}

\* C16: a successful Register persists an account with a fresh identifier,
\* the normalized email, role user, a non-empty password hash and
\* created = updated = now, and returns that account with the hash stripped.
RegisterPersistsUserAccount ==
    [][(resp' # resp /\ resp'.op = "register" /\ resp'.stage = "persist" /\ resp'.err = Nil)
       => LET id == resp'.user.ID
          IN  /\ id \notin DOMAIN users
              /\ id \in DOMAIN users'
              /\ users'[id].Email = Normalize(users'[id].Email)
              /\ users'[id].Email # EmptyStr
              /\ users'[id].Role = RoleUser
              /\ users'[id].PasswordHash # EmptyStr
              /\ users'[id].CreatedAt = now
              /\ users'[id].UpdatedAt = now
              /\ resp'.user = [users'[id] EXCEPT !.PasswordHash = EmptyStr]]_vars

\* C17: in every reachable state, after any sequence and any interleaving
\* of Register, administrative Create and Update, no two persisted accounts
\* have the same email and every persisted email is non-empty, trimmed and
\* lower-case; an Update that would set an account's email to the email of
\* another account fails with EmailExists and changes nothing.
EmailsUniqueAndNormalized ==
    /\ [](\A i \in DOMAIN users :
            /\ users[i].Email # EmptyStr
            /\ users[i].Email = Normalize(users[i].Email)
            /\ \A j \in DOMAIN users : i # j => users[i].Email # users[j].Email)
    /\ [](\A id \in DOMAIN users, input \in UpdateInputs :
            LET loaded == UserUpdateLoad(users, id, input, FALSE)
                res == UserUpdatePersist(users, loaded.user, now, FALSE)
            IN  (/\ input.Email # None
                 /\ \E j \in DOMAIN users : j # id /\ users[j].Email = Normalize(input.Email[1]))
                => (loaded.err = Nil /\ res.err = ErrEmailExists /\ res.st = users))
    /\ [][\A r \in Slots :
            (/\ reqs[r].pc = "loaded"
             /\ reqs'[r].pc = "idle"
             /\ reqs[r].user.ID \in DOMAIN users
             /\ \E j \in DOMAIN users : j # reqs[r].user.ID /\ users[j].Email = reqs[r].user.Email)
            => (resp'.err = ErrEmailExists /\ resp'.status = 409 /\ users' = users)]_vars

\* An administrator's Update to the email of another account, written with
\* a capital and a blank, was answered EmailExists.
EmailsUniqueAndNormalizedWitness ==
    /\ resp.op = "adminupdate"
    /\ resp.err = ErrEmailExists
    /\ resp.status = 409
    /\ Cardinality(DOMAIN users) = 2
    /\ resp.id \in DOMAIN users
    /\ \E j \in DOMAIN users : j # resp.id /\ users[j].Email = <<"b">>

\* The answers of the handlers behind authMiddleware.
GatedOps ==
    {"changepw", "selfrole", "adminlist", "adminget", "adminupdate", "adminrole",
     "adminreset", "admincreate", "admindelete"}

\* C18: behind the authentication middleware the handler runs only if the
\* request carried a non-empty bearer token, its prefix "Bearer " in any
\* letter case, and VerifyToken succeeded for it, and the principal attached
\* to the request is the account VerifyToken returned; every other request
\* is answered 401 and its handler does not run.
MiddlewareGatesHandlers ==
    /\ [](\A header \in Headers(issued \cup TokenUniverse) :
            LET m == authMiddleware(users, extractBearerToken(header), now, FALSE)
                v == VerifyToken(users, header.tok, now, FALSE)
            IN  /\ m.status = 200 <=>
                       (HasBearerPrefix(header) /\ header.tok # EmptyToken /\ v.err = Nil)
                /\ m.status = 200 => (m.user = v.user /\ m.user # NilUser)
                /\ m.status # 200 => (m.status = 401 /\ m.user = NilUser))
    /\ [][\A r \in Slots :
            (reqs[r].pc = "idle" /\ reqs'[r].pc # "idle" /\ reqs'[r].op # "register")
            => /\ reqs'[r].pc = "authed"
               /\ resp'.op = "verify"
               /\ resp'.status = 200
               /\ resp'.tokIn # EmptyToken
               /\ VerifyToken(users, resp'.tokIn, now, FALSE).err = Nil
               /\ reqs'[r].principal = VerifyToken(users, resp'.tokIn, now, FALSE).user]_vars
    /\ [][(resp' # resp /\ resp'.op = "verify" /\ resp'.status # 200)
            => (resp'.status = 401 /\ reqs' = reqs /\ users' = users)]_vars
    /\ [][(resp' # resp /\ resp'.op \in GatedOps)
            => \E r \in Slots :
                /\ reqs[r].pc \notin {"idle"}
                /\ reqs[r].principal # NilUser
                /\ resp'.by = reqs[r].principal]_vars

\* A request with a verified token reached handleChangePassword, which
\* changed the password of the attached principal.
MiddlewareGatesHandlersWitness ==
    /\ resp.op = "changepw"
    /\ resp.status = 204
    /\ resp.by # NilUser
    /\ resp.by.ID \in DOMAIN users
    /\ users[resp.by.ID].PasswordHash # SeedAdmin.PasswordHash
    /\ users[resp.by.ID].Role = EmptyStr

\* The answers of the handlers of /admin/users and /admin/users/{id}[/role].
AdminOps ==
    {"adminlist", "adminget", "adminupdate", "adminrole", "adminreset", "admincreate",
     "admindelete"}

\* C19: each administrative user operation (list, create, get, update,
\* delete, role set, role reset) calls the user service only if the role of
\* the attached principal is admin; with another principal the request is
\* answered 403 and the service neither reads nor modifies the store, and
\* with no principal it is answered 401.
AdminRoutesRequireAdmin ==
    /\ [](/\ requireAdmin(NilUser) = 401
          /\ \A i \in DOMAIN users :
                requireAdmin(sanitizeUser(users[i])) =
                    IF users[i].Role = RoleAdmin THEN 200 ELSE 403
          /\ \A r \in Slots :
                (reqs[r].pc \in {"loaded", "checked"} /\ reqs[r].op \in AdminOps)
                => reqs[r].principal.Role = RoleAdmin)
    /\ [][(resp' # resp /\ resp'.op \in AdminOps) =>
            IF resp'.by.Role = RoleAdmin
            THEN resp'.status \notin {401, 403}
            ELSE /\ resp'.status = 403
                 /\ users' = users
                 /\ resp'.err = Nil
                 /\ resp'.user = NilUser
                 /\ resp'.list = <<>>
                 /\ \A r \in Slots : reqs'[r].pc = "idle"]_vars

\* A principal of role user asked to delete a stored account and was
\* answered 403.
AdminRoutesRequireAdminWitness ==
    /\ resp.op = "admindelete"
    /\ resp.status = 403
    /\ resp.by.Role = RoleUser
    /\ resp.id \in DOMAIN users
    /\ resp.id # resp.by.ID

DomainErrors == {ErrInvalidCredentials, ErrEmailExists, ErrTokenInvalid, ErrUserNotFound}

\* C20: when a call to the user store fails with a transport error during
\* Register, Login or VerifyToken, the service returns that error as it is,
\* never InvalidCredentials, EmailExists or TokenInvalid, and issues no
\* token.
TransportErrorsPropagate ==
    /\ [](/\ ErrTransport \notin DomainErrors
          /\ \A e \in RawEmails, p \in RawPasswords :
                (Normalize(e) # EmptyStr /\ TrimSpace(p) # EmptyStr) =>
                    /\ RegisterCheck(users, e, p, RawName, TRUE) =
                           [user |-> NilUser, err |-> ErrTransport]
                    /\ Login(users, e, p, now, TRUE) =
                           [token |-> EmptyToken, user |-> NilUser, err |-> ErrTransport]
                    /\ LET c == RegisterCheck(users, e, p, RawName, FALSE)
                       IN  c.err = Nil =>
                               RegisterCreate(users, c.user, nextID, now, TRUE) =
                                   [st |-> users, user |-> NilUser, err |-> ErrTransport]
          /\ \A tok \in issued \cup TokenUniverse :
                Validate(tok, now).err = Nil =>
                    VerifyToken(users, tok, now, TRUE) = [user |-> NilUser, err |-> ErrTransport])
    /\ [][(/\ resp' # resp
            /\ resp'.down
            /\ \/ resp'.op = "login" /\ Normalize(resp'.email) # EmptyStr
                                     /\ TrimSpace(resp'.password) # EmptyStr
               \/ resp'.op = "register" /\ resp'.stage = "persist"
               \/ resp'.op = "register" /\ resp'.stage = "check"
                                        /\ Normalize(resp'.email) # EmptyStr
                                        /\ TrimSpace(resp'.password) # EmptyStr
               \/ resp'.op = "verify" /\ Validate(resp'.tokIn, now).err = Nil)
           => /\ resp'.err = ErrTransport
              /\ resp'.token = EmptyToken
              /\ resp'.user = NilUser
              /\ issued' = issued
              /\ users' = users]_vars

\* A login with the right password of a stored account was answered with
\* the transport error while the store was down.
TransportErrorsPropagateWitness ==
    /\ resp.op = "login"
    /\ resp.down
    /\ resp.err = ErrTransport
    /\ resp.token = EmptyToken
    /\ \E i \in DOMAIN users :
        /\ users[i].Email = Normalize(resp.email)
        /\ users[i].PasswordHash = GenerateFromPassword(TrimSpace(resp.password))

\* C21: Login, VerifyToken and RenewToken leave the user store as it is,
\* no account and no session record is written, and VerifyToken accepts a
\* token exactly when the token is well-formed, HMAC-signed with the
\* secret, unexpired at the current time and its subject account exists,
\* whether or not the service ever issued it.
TokenOperationsReadOnly ==
    /\ [](\A tok \in issued \cup TokenUniverse :
            LET v == VerifyToken(users, tok, now, FALSE)
            IN  /\ v.err = Nil <=>
                       (/\ tok.raw = "jwt" /\ tok.alg \in HMACMethods /\ tok.key = Secret
                        /\ now < tok.exp /\ tok.uid \in DOMAIN users)
                /\ v.err = Nil => v.user = [users[tok.uid] EXCEPT !.PasswordHash = EmptyStr]
                /\ RenewToken(users, tok, now, FALSE).err = v.err)
    /\ [][(resp' # resp /\ resp'.op \in {"login", "verify", "renew"})
           => (users' = users /\ nextID' = nextID /\ deleted' = deleted)]_vars

\* After a login and a renewal at a later second the two tokens were both
\* issued and the store holds the account as it was seeded.
TokenOperationsReadOnlyWitness ==
    /\ resp.op = "renew"
    /\ resp.err = Nil
    /\ resp.token # resp.tokIn
    /\ Cardinality(issued) = 2
    /\ users = SeededStore

\* The role operations supply the role field only.
RoleOnlyOps == {"selfrole", "adminrole", "adminreset"}

\* C22: an Update that omits the role leaves the stored role as it is, and
\* likewise for the email and the name; only the supplied fields and the
\* update time stamp of the addressed account change, every other field
\* and every other account stay as they were.
UpdateKeepsOmittedFields ==
    /\ [](\A id \in DOMAIN users, input \in UpdateInputs :
            LET loaded == UserUpdateLoad(users, id, input, FALSE)
                res == UserUpdatePersist(users, loaded.user, now + 1, FALSE)
            IN  (loaded.err = Nil /\ res.err = Nil) =>
                    /\ DOMAIN res.st = DOMAIN users
                    /\ \A j \in DOMAIN users \ {id} : res.st[j] = users[j]
                    /\ input.Role = None => res.st[id].Role = users[id].Role
                    /\ input.Email = None => res.st[id].Email = users[id].Email
                    /\ input.Name = None => res.st[id].Name = users[id].Name
                    /\ input.Email # None => res.st[id].Email = Normalize(input.Email[1])
                    /\ input.Name # None => res.st[id].Name = TrimSpace(input.Name[1])
                    /\ res.st[id].ID = id
                    /\ res.st[id].PasswordHash = users[id].PasswordHash
                    /\ res.st[id].CreatedAt = users[id].CreatedAt
                    /\ res.st[id].UpdatedAt = now + 1)
    /\ [][\A r \in Slots :
            (reqs[r].pc = "loaded" /\ reqs'[r].pc = "idle" /\ resp'.err = Nil) =>
                LET id == reqs[r].user.ID
                IN  /\ DOMAIN users' = DOMAIN users
                    /\ \A j \in DOMAIN users \ {id} : users'[j] = users[j]
                    /\ users'[id].PasswordHash = users[id].PasswordHash
                    /\ users'[id].CreatedAt = users[id].CreatedAt
                    /\ reqs[r].op \in RoleOnlyOps =>
                           /\ users'[id].Email = users[id].Email
                           /\ users'[id].Name = users[id].Name]_vars

\* The administrator changed the email of an account and the answer shows
\* the account with the new email and the role it had.
UpdateKeepsOmittedFieldsWitness ==
    /\ resp.op = "adminupdate"
    /\ resp.err = Nil
    /\ resp.user.Email = <<"b">>
    /\ resp.user.Role = RoleAdmin
    /\ users[resp.id].Role = RoleAdmin
    /\ users[resp.id].Email = <<"b">>

\* C23: an administrator's Create persists role user when the role input
\* is empty or blank, the given role when it is user or admin in any case
\* and with surrounding spaces, and fails with InvalidRole without
\* persisting anything otherwise; an Update with an unsupported role fails
\* with InvalidRole and leaves the account as it was.
RoleInputEnforced ==
    /\ [](\A raw \in RawRoles \cup {EmptyStr}, input \in CreateInputs :
            LET chk == UserCreateCheck(users, [input EXCEPT !.Role = raw], FALSE)
                res == UserCreatePersist(users, chk.user, nextID, now, FALSE)
                role == Normalize(raw)
            IN  (Normalize(input.Email) # EmptyStr /\ TrimSpace(input.Password) # EmptyStr) =>
                    /\ role \notin {EmptyStr, RoleUser, RoleAdmin} => chk.err = ErrInvalidRole
                    /\ (chk.err = Nil /\ res.err = Nil) =>
                           /\ role \in {EmptyStr, RoleUser, RoleAdmin}
                           /\ res.st[nextID].Role = IF role = EmptyStr THEN RoleUser ELSE role
                           /\ res.user.Role = res.st[nextID].Role)
    /\ [](\A id \in DOMAIN users, raw \in RawRoles :
            Normalize(raw) \notin {EmptyStr, RoleUser, RoleAdmin} =>
                UserUpdateLoad(users, id, [Email |-> None, Name |-> None, Role |-> Some(raw)],
                               FALSE).err = ErrInvalidRole)
    /\ [][(resp' # resp /\ resp'.err = ErrInvalidRole) =>
              (users' = users /\ nextID' = nextID /\ resp'.status = 400)]_vars
    /\ [](\A r \in Slots :
            (reqs[r].pc \in {"checked", "loaded"} /\ reqs[r].op \in RoleOnlyOps \cup {"admincreate"})
                => reqs[r].user.Role \in {RoleUser, RoleAdmin})

\* The administrator created an account with a blank role input and the
\* store holds it with role user.
RoleInputEnforcedWitness ==
    /\ resp.op = "admincreate"
    /\ resp.err = Nil
    /\ resp.user.Email = <<"b">>
    /\ resp.user.Role = RoleUser
    /\ \E i \in DOMAIN users : users[i].Email = <<"b">> /\ users[i].Role = RoleUser

\* C24: List with an unsupported role filter fails with InvalidRole; with a
\* supported filter it returns exactly the accounts that hold that role;
\* with an empty filter it returns every account; the result is ordered by
\* creation time, most recent first.
ListFiltersAndOrders ==
    /\ \A raw \in RawRoles \cup {EmptyStr} :
        LET res == UserList(users, raw, FALSE)
            role == Normalize(raw)
            expected == {i \in DOMAIN users : role = EmptyStr \/ users[i].Role = role}
        IN  /\ role \notin {EmptyStr, RoleUser, RoleAdmin} => res.err = ErrInvalidRole
            /\ role \in {EmptyStr, RoleUser, RoleAdmin} =>
                   /\ res.err = Nil
                   /\ res.lists # {}
                   /\ \A l \in res.lists :
                          /\ Len(l) = Cardinality(expected)
                          /\ {l[k].ID : k \in 1..Len(l)} = expected
                          /\ \A k \in 1..Len(l) :
                                 l[k] = [users[l[k].ID] EXCEPT !.PasswordHash = EmptyStr]
                          /\ \A k, m \in 1..Len(l) :
                                 k < m => l[k].CreatedAt >= l[m].CreatedAt
    /\ (resp.op = "adminlist" /\ resp.status = 200) =>
           /\ Normalize(resp.role) \in {EmptyStr, RoleUser, RoleAdmin}
           /\ {resp.list[k].ID : k \in 1..Len(resp.list)} =
                  {i \in DOMAIN users :
                      Normalize(resp.role) = EmptyStr \/ users[i].Role = Normalize(resp.role)}
           /\ \A k, m \in 1..Len(resp.list) :
                  k < m => resp.list[k].CreatedAt >= resp.list[m].CreatedAt
    /\ (resp.op = "adminlist" /\ resp.by.Role = RoleAdmin
        /\ Normalize(resp.role) \notin {EmptyStr, RoleUser, RoleAdmin}) =>
           (resp.err = ErrInvalidRole /\ resp.list = <<>>)

\* The list filtered by role admin was answered with two administrators,
\* the one created later first, while a third filter value would have
\* left one of them out.
ListFiltersAndOrdersWitness ==
    /\ resp.op = "adminlist"
    /\ resp.status = 200
    /\ Normalize(resp.role) = RoleAdmin
    /\ Len(resp.list) = 2
    /\ resp.list[1].CreatedAt > resp.list[2].CreatedAt

\* C25: the change-password operation changes the password of the account
\* of the authenticated principal only: the account is the one the token
\* was verified for, no other account's password changes, and of that
\* account only the password and the update time stamp change.
ChangePasswordOnlyOwnAccount ==
    /\ [](\A r \in Slots : reqs[r].pc = "hashed" => reqs[r].user.ID = reqs[r].principal.ID)
    /\ [](resp.op = "changepw" => resp.id = resp.by.ID)
    /\ [][\A i \in DOMAIN users \cap DOMAIN users' :
            users'[i].PasswordHash # users[i].PasswordHash =>
                /\ resp'.op = "changepw"
                /\ resp'.status = 204
                /\ resp'.by.ID = i
                /\ \E r \in Slots : reqs[r].pc = "hashed" /\ reqs[r].principal.ID = i
                                     /\ reqs'[r].pc = "idle"
                /\ \A j \in DOMAIN users \ {i} : j \in DOMAIN users' /\ users'[j] = users[j]
                /\ users'[i] = [users[i] EXCEPT !.PasswordHash = users'[i].PasswordHash,
                                                !.UpdatedAt = now]]_vars

\* Two accounts are stored, one of them changed its password, and the other
\* still has the password it was created with.
ChangePasswordOnlyOwnAccountWitness ==
    /\ resp.op = "changepw"
    /\ resp.status = 204
    /\ Cardinality(DOMAIN users) = 2
    /\ resp.id \in DOMAIN users
    /\ users[resp.id].PasswordHash \notin {GenerateFromPassword(<<"p">>), GenerateFromPassword(<<"q">>)}
    /\ \E j \in DOMAIN users \ {resp.id} :
           users[j].PasswordHash \in {GenerateFromPassword(<<"p">>), GenerateFromPassword(<<"q">>)}

\* The claims of a token.
TokenFields == {"raw", "alg", "key", "uid", "iss", "iat", "exp"}

\* C26: a token carries no role; a request that starts after a role change
\* and presents a token issued before the change is verified with the role
\* stored now, and an administrator operation by an account that is no
\* longer administrator is rejected with 403.
RoleFollowsStore ==
    /\ [](\A tok \in issued :
            LET v == VerifyToken(users, tok, now, FALSE)
            IN  /\ DOMAIN tok = TokenFields
                /\ v.err = Nil =>
                       /\ v.user.Role = users[tok.uid].Role
                       /\ users[tok.uid].Role # RoleAdmin => requireAdmin(v.user) = 403)
    /\ [][\A r \in Slots :
            (reqs[r].pc = "idle" /\ reqs'[r].pc = "authed") =>
                LET me == reqs'[r].principal
                IN  /\ me.ID \in DOMAIN users
                    /\ me.Role = users[me.ID].Role]_vars
    /\ [][(resp' # resp /\ resp'.op \in AdminOps /\ resp'.by.Role # RoleAdmin)
              => (resp'.status = 403 /\ users' = users)]_vars

\* The administrator logged in at instant 0 and was demoted at instant 1;
\* the list request it then made with the token of instant 0 was answered
\* 403.
RoleFollowsStoreWitness ==
    /\ resp.op = "adminlist"
    /\ resp.status = 403
    /\ resp.by.ID = 1
    /\ resp.by.Role = RoleUser
    /\ 1 \in DOMAIN users
    /\ users[1].UpdatedAt = 1
    /\ issued = {Generate(1, 0)}

\* C27: when two Updates on the same account overlap and set different
\* fields, one the role only and the other the name or the email only,
\* both changes are in the store after both returned: an Update that
\* supplies the role only leaves the stored email and name as they are at
\* the moment it writes.
ConcurrentUpdatesKeepBoth ==
    [][\A r \in Slots :
        (/\ reqs[r].pc = "loaded"
         /\ reqs'[r].pc = "idle"
         /\ reqs[r].op \in RoleOnlyOps
         /\ resp'.err = Nil) =>
            LET id == reqs[r].user.ID
            IN  /\ users'[id].Email = users[id].Email
                /\ users'[id].Name = users[id].Name]_vars

IssuerNames == {Issuer, "other", ""}

\* C29: the decision of Validate does not depend on the issuer claim: two
\* tokens that agree in everything but the issuer get the same result,
\* while every token that Generate issued carries the configured issuer.
ValidateIgnoresIssuer ==
    /\ \A tok \in issued \cup TokenUniverse \cup SiblingTokens, i \in IssuerNames :
           /\ Validate([tok EXCEPT !.iss = i], now) = Validate(tok, now)
           /\ VerifyToken(users, [tok EXCEPT !.iss = i], now, FALSE)
                  = VerifyToken(users, tok, now, FALSE)
    /\ \A tok \in issued : tok.iss = Issuer
    /\ \A u \in UserIDs : Generate(u, now).iss = Issuer
    /\ (resp.op = "renew" /\ resp.err = Nil) =>
           (resp.token.iss = Issuer /\ resp.token.uid = resp.tokIn.uid)

\* A token that carries another issuer name was renewed: it was accepted,
\* and the token returned for it carries the configured issuer.
ValidateIgnoresIssuerWitness ==
    /\ resp.op = "renew"
    /\ resp.err = Nil
    /\ resp.tokIn.iss = "other"
    /\ resp.token.iss = Issuer
    /\ resp.token \in issued

\* C30: a token is bound to the identifier of its account, not to the
\* email: once an account is deleted, every token issued for it is rejected
\* as TokenInvalid, also after a new account was registered with the same
\* email, because Register gives the new account an identifier that no
\* account had before; a token that is accepted resolves to the account
\* with the identifier it carries.
TokenBoundToIdentifier ==
    /\ [](DOMAIN users \cap deleted = {})
    /\ [](\A tok \in issued :
            LET v == VerifyToken(users, tok, now, FALSE)
            IN  /\ tok.uid \in deleted =>
                       /\ v = TokenInvalidOutcome
                       /\ authMiddleware(users, tok, now, FALSE).status = 401
                /\ v.err = Nil => (v.user.ID = tok.uid /\ tok.uid \notin deleted))
    /\ [](resp.op = "verify" /\ resp.err = Nil =>
              (resp.user.ID = resp.tokIn.uid /\ resp.tokIn.uid \notin deleted))
    /\ [][(resp' # resp /\ resp'.op = "register" /\ resp'.stage = "persist"
            /\ resp'.err = Nil) =>
              LET id == resp'.user.ID
              IN  /\ id \notin DOMAIN users
                  /\ id \notin deleted
                  /\ \A tok \in issued : tok.uid # id]_vars

\* The account with email a was deleted and an account with email a was
\* registered again; the token issued for the deleted account, not yet
\* expired, was then presented and rejected as TokenInvalid.
TokenBoundToIdentifierWitness ==
    /\ resp.op = "verify"
    /\ resp.err = ErrTokenInvalid
    /\ resp.tokIn \in issued
    /\ now < resp.tokIn.exp
    /\ resp.tokIn.uid \in deleted
    /\ \E i \in DOMAIN users : users[i].Email = <<"a">> /\ i # resp.tokIn.uid
    /\ deleted = {1}

====
